---- MODULE Spec2Model ----
(***************************************************************************)
(* toml_const_cli: the `init` subcommand.                                  *)
(*                                                                         *)
(* Paths are sequences of components, the first being "/".  A file's      *)
(* content is the sequence (or string) the code reads and writes.          *)
(***************************************************************************)
EXTENDS Naturals, Sequences, FiniteSets, TLC

VARIABLES
    \* ---- package_navi.rs: find_cargo_parent and its caller in cli.rs ----
    start,          \* the start directory (cargo_project_directory of run)
    tree,           \* tree[n]: the Cargo.toml entry of the ancestor SubSeq(start, 1, n)
    canonOk,        \* whether start.canonicalize() succeeds
    pc,             \* position of the resolution
    n,              \* the ancestor the walk is at (its number of components)
    path,           \* find_cargo_parent's local `path` (None or a path)
    result,         \* find_cargo_parent's return value
    root,           \* run's cargo_project_root
    relative_root,  \* run's relative_root
    \* ---- cli.rs: the functions run calls, and run from line 172 on ----
    toml,           \* the config document in memory (config_contents)
    cfgFile,        \* .cargo/config.toml on disk: None, or Some(text)
    fs,             \* the other files on disk: file path -> content
    log,            \* the calls made so far: arguments, state before, after, result
    rpc,            \* position of run
    input,          \* what run computed from its arguments before line 172
    snap,           \* the disk as it was when the current run started
    exit            \* how the last run ended

rvars == <<start, tree, canonOk, pc, n, path, result, root, relative_root>>

cvars == <<toml, cfgFile, fs, log, rpc, input, snap, exit>>

vars == <<rvars, cvars>>

\* ---------------------------------------------------------------- bounds
\* number of directories below "/" on the start directory's path, at most
MaxDepth == 2

\* ---------------------------------------------------------------- values
None == [tag |-> "None"]
Some(v) == [tag |-> "Some", val |-> v]

\* name of the i-th directory below "/"
DirName(i) == "d" \o ToString(i)

\* the directory i levels below "/"
Dir(d) == <<"/">> \o [i \in 1..d |-> DirName(i)]

\* std::path::Path::parent
Parent(p) == SubSeq(p, 1, Len(p) - 1)

\* PathBuf::push of one normal component
Push(p, c) == Append(p, c)

\* std::path::Path::strip_prefix: the rest of p after base, or an error
StripPrefix(p, base) ==
    IF Len(base) <= Len(p) /\ SubSeq(p, 1, Len(base)) = base
    THEN [tag |-> "Ok", val |-> SubSeq(p, Len(base) + 1, Len(p))]
    ELSE [tag |-> "Err"]

\* What a Cargo.toml directory entry can be, as far as the code tells apart:
\*   file      is_file() holds
\*   readable  fs::read_to_string succeeds
\*   toml      the content is a TOML table (toml::Table::from_str succeeds)
\*   workspace the table has a "workspace" key
\*   package   package.name is missing ("none"), a string, or another value
\*   bin       "bad": "bin" is an array with an element whose name is missing
\*             or not a string; "ok": anything else
ManifestEntries ==
    { [file |-> FALSE, readable |-> FALSE, toml |-> FALSE, workspace |-> FALSE,
       package |-> "none", bin |-> "ok"],
      [file |-> TRUE, readable |-> FALSE, toml |-> FALSE, workspace |-> FALSE,
       package |-> "none", bin |-> "ok"],
      [file |-> TRUE, readable |-> TRUE, toml |-> FALSE, workspace |-> FALSE,
       package |-> "none", bin |-> "ok"] }
    \cup
    [file : {TRUE}, readable : {TRUE}, toml : {TRUE}, workspace : BOOLEAN,
     package : {"none", "string", "other"}, bin : {"ok", "bad"}]

Absent == [file |-> FALSE, readable |-> FALSE, toml |-> FALSE, workspace |-> FALSE,
           package |-> "none", bin |-> "ok"]

\* CargoManifest::from_str on the content of entry m
from_str(m) ==
    IF ~m.toml THEN [tag |-> "Err"]
    ELSE IF m.bin = "bad" THEN [tag |-> "Panic"]
    ELSE [tag |-> "Ok",
          val |-> [package |-> m.package = "string", workspace |-> m.workspace]]

\* a slip: the walk goes on past a workspace manifest
VisitNoBreak(st, tr, k, p) ==
    LET upper_path == SubSeq(st, 1, k)
        cargo_path == Push(upper_path, "Cargo.toml")
        m          == tr[k]
        manifest   == from_str(m)
    IN  IF ~m.file THEN [ctl |-> "next", path |-> p]
        ELSE IF ~m.readable THEN [ctl |-> "return", path |-> p]
        ELSE IF manifest.tag = "Panic" THEN [ctl |-> "panic", path |-> p]
        ELSE IF manifest.tag = "Err" THEN [ctl |-> "next", path |-> p]
        ELSE IF manifest.val.workspace THEN [ctl |-> "next", path |-> Some(cargo_path)]
        ELSE IF manifest.val.package THEN [ctl |-> "next", path |-> Some(cargo_path)]
        ELSE [ctl |-> "next", path |-> p]

\* One iteration of the loop of find_cargo_parent at the ancestor of k
\* components: what the iteration does to `path` and how it leaves the loop.
\*   "next"   go on with the next ancestor      "break"  leave the loop
\*   "return" return None from the function     "panic"  the process panics
Visit(st, tr, k, p) ==
    LET upper_path == SubSeq(st, 1, k)
        cargo_path == Push(upper_path, "Cargo.toml")
        m          == tr[k]
        manifest   == from_str(m)
    IN  IF ~m.file THEN [ctl |-> "next", path |-> p]
        ELSE IF ~m.readable THEN [ctl |-> "return", path |-> p]
        ELSE IF manifest.tag = "Panic" THEN [ctl |-> "panic", path |-> p]
        ELSE IF manifest.tag = "Err" THEN [ctl |-> "next", path |-> p]
        ELSE IF manifest.val.workspace THEN [ctl |-> "break", path |-> Some(cargo_path)]
        ELSE IF manifest.val.package THEN [ctl |-> "next", path |-> Some(cargo_path)]
        ELSE [ctl |-> "next", path |-> p]

\* The whole loop from the ancestor of k components upward, as one value:
\* how find_cargo_parent ends and with what
RECURSIVE Walk(_, _, _, _)
Walk(st, tr, k, p) ==
    IF k = 0 THEN [tag |-> "Returned", val |-> p]
    ELSE LET v == Visit(st, tr, k, p)
         IN  CASE v.ctl = "next"   -> Walk(st, tr, k - 1, v.path)
               [] v.ctl = "break"  -> [tag |-> "Returned", val |-> v.path]
               [] v.ctl = "return" -> [tag |-> "Returned", val |-> None]
               [] v.ctl = "panic"  -> [tag |-> "Panicked"]

\* a slip: "../" repeated for every element of 0..(delta - 1)
RECURSIVE DotDotsFromZero(_)
DotDotsFromZero(delta) == IF delta = 0 THEN "" ELSE "../" \o DotDotsFromZero(delta - 1)

\* "../" repeated for every element of 1..(delta - 1)
RECURSIVE DotDots(_)
DotDots(delta) == IF delta <= 1 THEN "" ELSE "../" \o DotDots(delta - 1)

\* ------------------------------------------------------------ resolution
\* the part of the state the resolution does not use
CIdle ==
    /\ toml = <<>>
    /\ cfgFile = None
    /\ fs = <<>>
    /\ log = <<>>
    /\ rpc = "idle"
    /\ input = <<>>
    /\ snap = <<>>
    /\ exit = "none"

RInit ==
    /\ \E d \in 0..MaxDepth :
          /\ start = Dir(d)
          /\ tree \in [1..(d + 1) -> ManifestEntries]
    \* a start directory that cannot be canonicalized does not exist or cannot
    \* be reached: no manifest is seen on its chain
    /\ canonOk \in BOOLEAN
    /\ ~canonOk => \A k \in DOMAIN tree : tree[k] = Absent
    /\ pc = "call"
    /\ n = 0
    /\ path = None
    /\ result = None
    /\ root = <<>>
    /\ relative_root = ""
    /\ CIdle

\* find_cargo_parent, line 91
Canonicalize ==
    /\ pc = "call"
    /\ IF canonOk
       THEN /\ pc' = "loop"
            /\ n' = Len(start)
       ELSE /\ pc' = "returned"
            /\ n' = n
    /\ UNCHANGED <<start, tree, canonOk, path, result, root, relative_root>>
    /\ UNCHANGED cvars

\* find_cargo_parent, one iteration of the loop over full_path.ancestors()
VisitAncestor ==
    /\ pc = "loop"
    /\ n >= 1
    /\ LET v == Visit(start, tree, n, path)
       IN  /\ path' = v.path
           /\ n' = IF v.ctl = "next" THEN n - 1 ELSE n
           /\ pc' = CASE v.ctl = "next" -> "loop"
                      [] v.ctl = "break" -> "exit"
                      [] v.ctl = "return" -> "returned"
                      [] v.ctl = "panic" -> "panicked"
           /\ result' = None
    /\ UNCHANGED <<start, tree, canonOk, root, relative_root>>
    /\ UNCHANGED cvars

\* find_cargo_parent, line 121: the loop is over (broken or exhausted)
ReturnPath ==
    /\ \/ pc = "exit"
       \/ pc = "loop" /\ n = 0
    /\ result' = path
    /\ pc' = "returned"
    /\ UNCHANGED <<start, tree, canonOk, n, path, root, relative_root>>
    /\ UNCHANGED cvars

\* run, lines 133-140: the root is the parent of the manifest found, or the
\* manifest's own directory
ResolveRoot ==
    /\ pc = "returned"
    /\ root' = IF result.tag = "Some" THEN Parent(result.val) ELSE start
    /\ pc' = "resolved"
    /\ UNCHANGED <<start, tree, canonOk, n, path, result, relative_root>>
    /\ UNCHANGED cvars

\* run, lines 157-168
RelativeRoot ==
    /\ pc = "resolved"
    /\ LET base  == Push(start, "Cargo.toml")
           strip == StripPrefix(base, root)
       IN  IF strip.tag = "Ok"
           THEN /\ relative_root' = DotDots(Len(strip.val))
                /\ pc' = "done"
           ELSE /\ relative_root' = relative_root
                /\ pc' = "panicked"
    /\ UNCHANGED <<start, tree, canonOk, n, path, result, root>>
    /\ UNCHANGED cvars

RNext == Canonicalize \/ VisitAncestor \/ ReturnPath \/ ResolveRoot \/ RelativeRoot

SpecResolve == RInit /\ [][RNext]_vars

\* ------------------------------------------------------------ toml values
VString(s) == [tag |-> "String", val |-> s]
VInteger(i) == [tag |-> "Integer", val |-> i]
VTable(t) == [tag |-> "Table", val |-> t]

\* toml::Table (a map from keys to values): new, insert, get
NewTable == <<>>
Insert(t, k, v) == [x \in (DOMAIN t) \cup {k} |-> IF x = k THEN v ELSE t[x]]
Get(t, k) == IF k \in DOMAIN t THEN Some(t[k]) ELSE None

Ok == [tag |-> "Ok"]
Err(msg) == [tag |-> "Err", msg |-> msg]
Panic == [tag |-> "Panic"]

\* The keys of toml_const::consts.  Their texts are set in the toml_const
\* crate; the code relies only on their being five different keys.
TEMPLATE_ENV == "TEMPLATE_ENV"
DEBUG_ENV == "DEBUG_ENV"
DEPLOY_ENV == "DEPLOY_ENV"
CONFIG_PATH_ENV == "CONFIG_PATH_ENV"
GENERATED_FILE_PATH_ENV == "GENERATED_FILE_PATH_ENV"

\* run, lines 104-106
template_name(package_name) == package_name \o ".template.toml"
debug_name(package_name) == package_name \o ".debug.toml"
deploy_name(package_name) == package_name \o ".deploy.toml"

\* insert_into_env: the table after the five inserts
insert_into_env(env_table, template, debug, deploy, config_path, generated_path) ==
    LET t1 == Insert(env_table, TEMPLATE_ENV, VString(template))
        t2 == Insert(t1, DEBUG_ENV, VString(debug))
        t3 == Insert(t2, DEPLOY_ENV, VString(deploy))
        t4 == Insert(t3, CONFIG_PATH_ENV, VString(config_path))
    IN  Insert(t4, GENERATED_FILE_PATH_ENV, VString(generated_path))

\* a slip: the existing "env" table is rebuilt from nothing
update_config_toml_rebuilding(t, template, debug, deploy, config_path, generated_path, rel) ==
    LET actual_config_path == rel \o config_path
        e == Get(t, "env")
    IN  IF e.tag = "Some" /\ e.val.tag # "Table"
        THEN [toml |-> t, res |-> Err("key \"env\" not defined as a table")]
        ELSE [toml |-> Insert(t, "env",
                          VTable(insert_into_env(NewTable, template, debug, deploy,
                                                 actual_config_path, generated_path))),
              res |-> Ok]

\* a slip: an "env" entry that is not a table is replaced by the new table
update_config_toml_overwriting(t, template, debug, deploy, config_path, generated_path, rel) ==
    LET actual_config_path == rel \o config_path
        e == Get(t, "env")
    IN  IF e.tag = "Some" /\ e.val.tag = "Table"
        THEN [toml |-> [t EXCEPT !["env"] =
                          VTable(insert_into_env(e.val.val, template, debug, deploy,
                                                 actual_config_path, generated_path))],
              res |-> Ok]
        ELSE [toml |-> Insert(t, "env",
                          VTable(insert_into_env(NewTable, template, debug, deploy,
                                                 actual_config_path, generated_path))),
              res |-> Ok]

\* update_config_toml: the table after the call, and the value returned
update_config_toml(t, template, debug, deploy, config_path, generated_path, rel) ==
    LET actual_config_path == rel \o config_path
        e == Get(t, "env")
    IN  IF e.tag = "Some"
        THEN IF e.val.tag = "Table"
             THEN [toml |-> [t EXCEPT !["env"] =
                               VTable(insert_into_env(e.val.val, template, debug, deploy,
                                                      actual_config_path, generated_path))],
                   res |-> Ok]
             ELSE [toml |-> t, res |-> Err("key \"env\" not defined as a table")]
        ELSE [toml |-> Insert(t, "env",
                          VTable(insert_into_env(NewTable, template, debug, deploy,
                                                 actual_config_path, generated_path))),
              res |-> Ok]

\* ------------------------------------------------------- inputs of the calls
\* calls made in one behaviour, at most
MaxCalls == 2

Names == {"foo", "bar"}
RelativeRoots == {"", "../"}
ConfigPath == ".config/"
GeneratedPath == "generated.rs"

\* tables a user may have under "env": any of these keys, with these values
EnvTables ==
    { [k \in ks |-> IF k = "RUST_LOG" THEN VString("INFO") ELSE VString("foo.template.toml")] :
        ks \in SUBSET {TEMPLATE_ENV, GENERATED_FILE_PATH_ENV, "RUST_LOG"} }

\* what a document may hold under "env": nothing, a table, or something else
EnvEntries == {None} \cup { Some(v) : v \in {VString("x"), VInteger(1)} }
                     \cup { Some(VTable(t)) : t \in EnvTables }

BuildEntries == {None, Some(VTable([jobs |-> VInteger(4)]))}

\* the document with these entries
Document(env, build) ==
    LET t1 == IF env.tag = "Some" THEN Insert(NewTable, "env", env.val) ELSE NewTable
    IN  IF build.tag = "Some" THEN Insert(t1, "build", build.val) ELSE t1

Documents == { Document(env, build) : env \in EnvEntries, build \in BuildEntries }

\* the arguments run passes to update_config_toml for a package name
MergeArgs(name, rel) ==
    [name |-> name, template |-> template_name(name), debug |-> debug_name(name),
     deploy |-> deploy_name(name), config_path |-> ConfigPath,
     generated_path |-> GeneratedPath, relative_root |-> rel]

\* the part of the state the resolution uses, at rest
RIdle ==
    /\ start = <<>>
    /\ tree = <<>>
    /\ canonOk = TRUE
    /\ pc = "idle"
    /\ n = 0
    /\ path = None
    /\ result = None
    /\ root = <<>>
    /\ relative_root = ""

\* ------------------------------------------------- update_config_toml alone
MInit ==
    /\ RIdle
    /\ toml \in Documents
    /\ cfgFile = None
    /\ fs = <<>>
    /\ log = <<>>
    /\ rpc = "idle"
    /\ input = <<>>
    /\ snap = <<>>
    /\ exit = "none"

\* one call of update_config_toml on the document
MergeCall ==
    /\ Len(log) < MaxCalls
    /\ \E name \in Names, rel \in RelativeRoots :
          LET a == MergeArgs(name, rel)
              r == update_config_toml(toml, a.template, a.debug, a.deploy,
                                      a.config_path, a.generated_path, a.relative_root)
          IN  /\ toml' = r.toml
              /\ log' = Append(log, [args |-> a, pre |-> toml, post |-> r.toml, res |-> r.res])
    /\ UNCHANGED <<cfgFile, fs, rpc, input, snap, exit>>
    /\ UNCHANGED rvars

MNext == MergeCall

SpecMerge == MInit /\ [][MNext]_vars

\* -------------------------------------------------------------- files
\* The text of toml_const::consts::CONFIG_TOML_BOILERPLATE is set in the
\* toml_const crate; it is a non-empty text.
CONFIG_TOML_BOILERPLATE == "# boilerplate\n"

\* env!("CARGO_PKG_NAME")
CARGO_PKG_NAME == "toml_const_cli"

\* PathBuf::push of a relative path
PushAll(p, rel) == p \o rel

\* the file a path names: "." components name the directory they are in
NotDot(c) == c # "."
FileAt(p) == SelectSeq(p, NotDot)

\* OpenOptions .create(true) .open(p): the file exists afterwards
OpenCreate(f, p) == IF FileAt(p) \in DOMAIN f THEN f ELSE Insert(f, FileAt(p), "")

\* a slip: the boilerplate is written whatever the file holds
RECURSIVE CreateLoopUnchecked(_, _, _, _)
CreateLoopUnchecked(f, dir, paths, i) ==
    IF i > Len(paths) THEN [fs |-> f, res |-> Ok]
    ELSE LET new_path == Push(dir, paths[i])
             opened   == OpenCreate(f, new_path)
         IN  CreateLoopUnchecked([opened EXCEPT ![FileAt(new_path)] = CONFIG_TOML_BOILERPLATE],
                                 dir, paths, i + 1)

\* create_config_toml_files, the loop from the i-th path on: the files
\* afterwards and the value returned
RECURSIVE CreateLoop(_, _, _, _)
CreateLoop(f, dir, paths, i) ==
    IF i > Len(paths) THEN [fs |-> f, res |-> Ok]
    ELSE LET new_path == Push(dir, paths[i])
             opened   == OpenCreate(f, new_path)
             contents == opened[FileAt(new_path)]
         IN  IF Len(contents) # 0
             THEN [fs |-> opened, res |-> Err("Config files already exist")]
             ELSE CreateLoop([opened EXCEPT ![FileAt(new_path)] = CONFIG_TOML_BOILERPLATE],
                             dir, paths, i + 1)

\* create_config_toml_files
create_config_toml_files(f, project_root, config_path, template, debug, deploy) ==
    CreateLoop(f, PushAll(project_root, config_path), <<template, debug, deploy>>, 1)

\* What can go wrong with the two ignore files in one call
Faults == {"none", "open_generated", "write_generated", "open_config", "write_config"}

\* io::Error::to_string: the operating system's text for the error
IoErrorText == "Permission denied (os error 13)"

\* update_gitignore_file: the files afterwards and the value returned
update_gitignore_file(f, config_dir, generated_file_path, template, fault) ==
    LET generated_file_name == generated_file_path[Len(generated_file_path)]
        generated_rules == "\n\n# added by " \o CARGO_PKG_NAME \o "\n"
                              \o generated_file_name \o "\n"
        path1 == Push(Parent(generated_file_path), ".gitignore")
        f1 == OpenCreate(f, path1)
        f2 == [f1 EXCEPT ![FileAt(path1)] = @ \o generated_rules]
        config_rules == "# added by " \o CARGO_PKG_NAME \o "\n*.toml\n!" \o template
        path2 == Push(config_dir, ".gitignore")
        f3 == Insert(f2, FileAt(path2), "")
        f4 == Insert(f2, FileAt(path2), config_rules)
    IN  CASE fault = "open_generated"  -> [fs |-> f, res |-> Panic]
          [] fault = "write_generated" -> [fs |-> f1, res |-> Err(IoErrorText)]
          [] fault = "open_config"     -> [fs |-> f2, res |-> Panic]
          [] fault = "write_config"    -> [fs |-> f3, res |-> Err(IoErrorText)]
          [] OTHER                     -> [fs |-> f4, res |-> Ok]

\* ---------------------------------------------------------- the project
ProjectRoot == <<"/", "proj">>
ConfigDirRel == <<".config">>

\* the boilerplate files of a package name, in the order of the code
BoilerplatePaths(name) ==
    LET dir == PushAll(ProjectRoot, ConfigDirRel)
    IN  << Push(dir, template_name(name)), Push(dir, debug_name(name)),
           Push(dir, deploy_name(name)) >>

Range(q) == { q[i] : i \in 1..Len(q) }

AllBoilerplatePaths == UNION { Range(BoilerplatePaths(name)) : name \in Names }

\* a file system: each of the paths absent, empty, or holding the user's text
FileSystems(paths, text) ==
    { [p \in { q \in paths : g[q] # "absent" } |-> IF g[p] = "empty" THEN "" ELSE text] :
        g \in [paths -> {"absent", "empty", "user"}] }

\* ------------------------------------------- create_config_toml_files alone
FInit ==
    /\ RIdle
    /\ toml = <<>>
    /\ cfgFile = None
    /\ fs \in FileSystems(AllBoilerplatePaths, "user = 1\n")
    /\ log = <<>>
    /\ rpc = "idle"
    /\ input = <<>>
    /\ snap = <<>>
    /\ exit = "none"

\* one call of create_config_toml_files
FilesCall ==
    /\ Len(log) < MaxCalls
    /\ \E name \in Names :
          LET r == create_config_toml_files(fs, ProjectRoot, ConfigDirRel,
                       template_name(name), debug_name(name), deploy_name(name))
          IN  /\ fs' = r.fs
              /\ log' = Append(log, [args |-> [name |-> name], pre |-> fs,
                                     post |-> r.fs, res |-> r.res])
    /\ UNCHANGED <<toml, cfgFile, rpc, input, snap, exit>>
    /\ UNCHANGED rvars

FNext == FilesCall

SpecFiles == FInit /\ [][FNext]_vars

\* ---------------------------------------------- update_gitignore_file alone
\* where the config directory and the generated file are: the default
\* layout, a package inside a workspace, and a config directory that is the
\* package directory itself (--config-path .)
Layouts ==
    { [config_dir |-> <<"/", "proj", ".config">>,
       generated_file_path |-> <<"/", "proj", "generated.rs">>],
      [config_dir |-> <<"/", "proj", ".config">>,
       generated_file_path |-> <<"/", "proj", "crate", "generated.rs">>],
      [config_dir |-> <<"/", "proj", ".">>,
       generated_file_path |-> <<"/", "proj", "generated.rs">>] }

\* the two ignore files of a layout
GeneratedIgnore(l) == FileAt(Push(Parent(l.generated_file_path), ".gitignore"))
ConfigIgnore(l) == FileAt(Push(l.config_dir, ".gitignore"))

AllIgnorePaths == UNION { {GeneratedIgnore(l), ConfigIgnore(l)} : l \in Layouts }

IInit ==
    /\ RIdle
    /\ toml = <<>>
    /\ cfgFile = None
    /\ fs \in FileSystems(AllIgnorePaths, "target\n")
    /\ log = <<>>
    /\ rpc = "idle"
    /\ input \in Layouts
    /\ snap = <<>>
    /\ exit = "none"

\* one call of update_gitignore_file
IgnoreCall ==
    /\ Len(log) < MaxCalls
    /\ \E name \in Names, fault \in Faults :
          LET r == update_gitignore_file(fs, input.config_dir, input.generated_file_path,
                                         template_name(name), fault)
          IN  /\ fs' = r.fs
              /\ log' = Append(log, [args |-> [name |-> name, fault |-> fault], pre |-> fs,
                                     post |-> r.fs, res |-> r.res])
    /\ UNCHANGED <<toml, cfgFile, rpc, input, snap, exit>>
    /\ UNCHANGED rvars

INext == IgnoreCall

SpecIgnore == IInit /\ [][INext]_vars

\* ------------------------------------------------ run, from line 172 on
\* The text of a config file, as far as reading and writing it go: whether
\* it parses as TOML, whether it holds comments, and the table it denotes.
Text(valid, comments, table) == [valid |-> valid, comments |-> comments, table |-> table]

\* toml::from_str: the table of a text, or an error
FromStr(text) == IF text.valid THEN [tag |-> "Ok", val |-> text.table] ELSE [tag |-> "Err"]

\* toml::to_string_pretty: the text of a table (it holds no comments)
ToStringPretty(table) == Text(TRUE, FALSE, table)

\* the empty file
EmptyText == Text(TRUE, FALSE, NewTable)

\* the config files a project may hold when run starts
ConfigFiles ==
    {None, Some(Text(FALSE, FALSE, NewTable))}
    \cup { Some(Text(TRUE, c, d)) : c \in BOOLEAN, d \in Documents }

\* what run has computed before line 172, for a package name and a place of
\* the manifest: in the project root, or in a package of a workspace
RunInputs ==
    { [name |-> name, project_root |-> ProjectRoot, config_path |-> ConfigDirRel,
       toml_config_dir |-> ConfigPath, generated_file |-> GeneratedPath,
       relative_root |-> IF nested THEN "../" ELSE "",
       config_dir |-> PushAll(ProjectRoot, ConfigDirRel),
       generated_dir |-> IF nested THEN <<"/", "proj", "crate", "generated.rs">>
                                   ELSE <<"/", "proj", "generated.rs">>] :
        name \in Names, nested \in BOOLEAN }

\* the files a project may hold when run starts: none, or an ignore file
\* and a debug file of the user's
StartFiles ==
    { <<>>,
      [p \in {<<"/", "proj", ".gitignore">>, BoilerplatePaths("foo")[2]} |->
          IF p = <<"/", "proj", ".gitignore">> THEN "target\n" ELSE "user = 1\n"] }

RunInit ==
    /\ RIdle
    /\ toml = <<>>
    /\ cfgFile \in ConfigFiles
    /\ fs \in StartFiles
    /\ log = <<>>
    /\ rpc = "idle"
    /\ input = [run |-> 0]
    /\ snap = <<>>
    /\ exit = "none"

\* run is started (lines 54-168 have computed the input)
StartRun ==
    /\ rpc \in {"idle", "exited"}
    /\ input.run < MaxCalls
    /\ \E i \in RunInputs : input' = [run |-> input.run + 1, arg |-> i]
    /\ snap' = [cfgFile |-> cfgFile, fs |-> fs]
    /\ rpc' = "open"
    /\ exit' = "none"
    /\ toml' = <<>>
    /\ UNCHANGED <<cfgFile, fs, log>>
    /\ UNCHANGED rvars

\* run, lines 172-182: the config file is opened (created when missing),
\* read and parsed
OpenConfig ==
    /\ rpc = "open"
    /\ LET opened == IF cfgFile = None THEN EmptyText ELSE cfgFile.val
           parsed == FromStr(opened)
       IN  /\ cfgFile' = Some(opened)
           /\ IF parsed.tag = "Ok"
              THEN /\ toml' = parsed.val
                   /\ rpc' = "update"
                   /\ exit' = exit
              ELSE /\ toml' = toml
                   /\ rpc' = "exited"
                   /\ exit' = "panic"
    /\ UNCHANGED <<fs, log, input, snap>>
    /\ UNCHANGED rvars

\* run, lines 184-198
UpdateConfig ==
    /\ rpc = "update"
    /\ LET a == input.arg
           r == update_config_toml(toml, template_name(a.name), debug_name(a.name),
                                   deploy_name(a.name), a.toml_config_dir,
                                   a.generated_file, a.relative_root)
       IN  /\ toml' = r.toml
           /\ log' = Append(log, [run |-> input.run, pre |-> toml, post |-> r.toml,
                                  res |-> r.res])
           /\ IF r.res.tag = "Ok"
              THEN rpc' = "write" /\ exit' = exit
              ELSE rpc' = "exited" /\ exit' = "FAILURE"
    /\ UNCHANGED <<cfgFile, fs, input, snap>>
    /\ UNCHANGED rvars

\* run, lines 201-209
WriteConfig ==
    /\ rpc = "write"
    /\ cfgFile' = Some(ToStringPretty(toml))
    /\ rpc' = "create"
    /\ UNCHANGED <<toml, fs, log, input, snap, exit>>
    /\ UNCHANGED rvars

\* run, lines 212-224
CreateFiles ==
    /\ rpc = "create"
    /\ LET a == input.arg
           r == create_config_toml_files(fs, a.project_root, a.config_path,
                    template_name(a.name), debug_name(a.name), deploy_name(a.name))
       IN  /\ fs' = r.fs
           /\ IF r.res.tag = "Ok"
              THEN rpc' = "ignore" /\ exit' = exit
              ELSE rpc' = "exited" /\ exit' = "FAILURE"
    /\ UNCHANGED <<toml, cfgFile, log, input, snap>>
    /\ UNCHANGED rvars

\* run, lines 226-241
UpdateGitignore ==
    /\ rpc = "ignore"
    /\ \E fault \in Faults :
          LET a == input.arg
              r == update_gitignore_file(fs, a.config_dir, a.generated_dir,
                                         template_name(a.name), fault)
          IN  /\ fs' = r.fs
              /\ exit' = CASE r.res.tag = "Ok" -> "SUCCESS"
                           [] r.res.tag = "Err" -> "FAILURE"
                           [] OTHER -> "panic"
    /\ rpc' = "exited"
    /\ UNCHANGED <<toml, cfgFile, log, input, snap>>
    /\ UNCHANGED rvars

RunNext ==
    StartRun \/ OpenConfig \/ UpdateConfig \/ WriteConfig \/ CreateFiles \/ UpdateGitignore

SpecRun == RunInit /\ [][RunNext]_vars

\* ------------------------------------------------- properties: resolution
Levels == 1..Len(start)

\* the manifest of level k can be read and declares a workspace / a package name
DeclaresWorkspace(k) ==
    tree[k].file /\ tree[k].readable /\ tree[k].toml /\ tree[k].workspace
DeclaresPackage(k) ==
    tree[k].file /\ tree[k].readable /\ tree[k].toml /\ tree[k].package = "string"

\* level k holds no manifest, or one that is read and parsed into a CargoManifest
ReadableParseable(k) ==
    tree[k].file => (tree[k].readable /\ tree[k].toml /\ tree[k].bin = "ok")

\* level k holds a manifest file that cannot be read or parsed
FailsToParse(k) ==
    tree[k].file /\ (~tree[k].readable \/ ~tree[k].toml \/ tree[k].bin = "bad")

\* the workspace-declaring manifest nearest to the start directory
NearestWorkspace ==
    CHOOSE k \in Levels : DeclaresWorkspace(k) /\ \A j \in Levels : DeclaresWorkspace(j) => j <= k

\* the package-declaring manifest farthest from the start directory
TopmostPackage ==
    CHOOSE k \in Levels : DeclaresPackage(k) /\ \A j \in Levels : DeclaresPackage(j) => k <= j

Resolved == pc \in {"resolved", "done"}
WalkOver == pc \in {"returned", "resolved", "done"}

C1_Pre ==
    /\ \E k \in Levels : DeclaresWorkspace(k)
    /\ \A k \in Levels : k >= NearestWorkspace => ReadableParseable(k)

\* C1: when a workspace-declaring manifest sits at or above the start
\* directory and every manifest from the start directory up to it is
\* readable and parseable, the walk stops at the nearest such manifest (no
\* level above it is visited), returns that manifest's path, and the resolved
\* root is the directory holding it, whatever package manifests lie below it
\* and whatever lies above it.
C1_WorkspaceRoot ==
    C1_Pre =>
        /\ pc # "panicked"
        /\ n >= NearestWorkspace \/ pc = "call"
        /\ WalkOver =>
              /\ n = NearestWorkspace
              /\ result = Some(Push(SubSeq(start, 1, NearestWorkspace), "Cargo.toml"))
        /\ Resolved => root = SubSeq(start, 1, NearestWorkspace)

\* C1 witness: a workspace manifest above the start directory, a package
\* manifest between, another manifest above the workspace, root resolved
C1_Witness ==
    /\ C1_Pre
    /\ pc = "done"
    /\ NearestWorkspace < Len(start)
    /\ NearestWorkspace > 1
    /\ \E k \in Levels : k > NearestWorkspace /\ DeclaresPackage(k)
    /\ \E k \in Levels : k < NearestWorkspace /\ tree[k].file
    /\ root = SubSeq(start, 1, NearestWorkspace)

\* C4 (as claimed): with no workspace-declaring manifest and at least one
\* package-declaring manifest on the chain, the resolved root is the directory
\* of the topmost package-declaring manifest, and find_cargo_parent does not
\* return None when the start directory itself holds a package manifest.
C4_TopmostPackage ==
    ( /\ \A k \in Levels : ~DeclaresWorkspace(k)
      /\ \E k \in Levels : DeclaresPackage(k) ) =>
        /\ pc # "panicked"
        /\ Resolved => root = SubSeq(start, 1, TopmostPackage)
        /\ (WalkOver /\ DeclaresPackage(Len(start))) => result # None

\* the same tree with the manifest of level k removed
Removed(k) == [tree EXCEPT ![k] = Absent]

\* C9 (as claimed): a manifest that fails to be read or parsed is treated as
\* absent: the walk neither panics nor returns early, and its result is the
\* result for the same tree without that manifest.
C9_FailedManifestIsAbsent ==
    (WalkOver \/ pc = "panicked") =>
        \A k \in Levels :
            FailsToParse(k) =>
                /\ pc # "panicked"
                /\ [tag |-> "Returned", val |-> result]
                     = Walk(start, Removed(k), Len(start), None)

\* "../" n times, built from the right
RECURSIVE Ups(_)
Ups(k) == IF k = 0 THEN "" ELSE Ups(k - 1) \o "../"

\* C7: the relative prefix is "../" repeated N times, N being the number of
\* directory levels between the manifest's directory and the resolved root:
\* empty when the manifest lies in the root, "../../" two levels below it.
C7_RelativePrefix ==
    pc = "done" =>
        /\ Len(root) <= Len(start)
        /\ relative_root = Ups(Len(start) - Len(root))
        /\ root = start => relative_root = ""
        /\ Len(start) - Len(root) = 2 => relative_root = "../../"

\* C7 witness: the manifest two levels below a workspace root
C7_Witness ==
    /\ pc = "done"
    /\ Len(start) >= 3
    /\ DeclaresWorkspace(Len(start) - 2)
    /\ root = SubSeq(start, 1, Len(start) - 2)
    /\ relative_root = "../../"

\* ------------------------------------------------------ properties: merge
GeneratedKeys ==
    {TEMPLATE_ENV, DEBUG_ENV, DEPLOY_ENV, CONFIG_PATH_ENV, GENERATED_FILE_PATH_ENV}

\* the document has no "env" entry, or one that is a table
EnvAbsentOrTable(t) == "env" \in DOMAIN t => t["env"].tag = "Table"

\* the keys and values under "env" ("env" absent: none)
EnvOf(t) == IF "env" \in DOMAIN t THEN t["env"].val ELSE <<>>

\* C2: a merge into a document whose "env" is absent or a table succeeds;
\* the result has the five generated keys of "env" set to the given values
\* (config path prefixed with the relative prefix, generated path not), every
\* other key of "env" and every other top-level key as before, and a second
\* merge with the same entries gives the same document as the first.
C2_MergeFrame ==
    \A i \in 1..Len(log) :
        LET c == log[i]
            e == EnvOf(c.post)
            e0 == EnvOf(c.pre)
        IN  EnvAbsentOrTable(c.pre) =>
              /\ c.res = Ok
              /\ DOMAIN c.post = (DOMAIN c.pre) \cup {"env"}
              /\ \A k \in (DOMAIN c.pre) \ {"env"} : c.post[k] = c.pre[k]
              /\ c.post["env"].tag = "Table"
              /\ DOMAIN e = (DOMAIN e0) \cup GeneratedKeys
              /\ \A k \in (DOMAIN e0) \ GeneratedKeys : e[k] = e0[k]
              /\ e[TEMPLATE_ENV] = VString(c.args.name \o ".template.toml")
              /\ e[DEBUG_ENV] = VString(c.args.name \o ".debug.toml")
              /\ e[DEPLOY_ENV] = VString(c.args.name \o ".deploy.toml")
              /\ e[CONFIG_PATH_ENV] = VString(c.args.relative_root \o c.args.config_path)
              /\ e[GENERATED_FILE_PATH_ENV] = VString(c.args.generated_path)
              /\ (i < Len(log) /\ log[i + 1].args = c.args) =>
                    (log[i + 1].res = Ok /\ log[i + 1].post = c.post)

\* C2 witness: two merges with the same entries into a document that had a
\* table under "env" with a key of the user's and a stale generated key, and
\* another section
C2_Witness ==
    /\ Len(log) = 2
    /\ log[1].args = log[2].args
    /\ log[1].args.relative_root = "../"
    /\ "build" \in DOMAIN log[1].pre
    /\ "env" \in DOMAIN log[1].pre
    /\ log[1].pre["env"].tag = "Table"
    /\ {"RUST_LOG", TEMPLATE_ENV} \subseteq DOMAIN log[1].pre["env"].val
    /\ log[1].pre["env"].val[TEMPLATE_ENV] # VString(log[1].args.template)
    /\ log[2].res = Ok

\* -------------------------------------------------------- properties: run
\* C5: when "env" exists and is not a table, update_config_toml returns the
\* error and leaves the document as it was, and run ends there with FAILURE:
\* the config file, the boilerplate files and the ignore files are as they
\* were when the run started.
C5_ShapeConflictAborts ==
    \A i \in 1..Len(log) :
        LET c == log[i]
        IN  ~EnvAbsentOrTable(c.pre) =>
              /\ c.res = Err("key \"env\" not defined as a table")
              /\ c.post = c.pre
              /\ c.run = input.run =>
                    /\ rpc = "exited"
                    /\ exit = "FAILURE"
                    /\ cfgFile = snap.cfgFile
                    /\ fs = snap.fs

\* C5 witness: a run that ended on a config file with comments whose "env"
\* is a string, in a project with no boilerplate file
C5_Witness ==
    /\ rpc = "exited"
    /\ Len(log) > 0
    /\ log[Len(log)].run = input.run
    /\ "env" \in DOMAIN log[Len(log)].pre
    /\ log[Len(log)].pre["env"].tag = "String"
    /\ cfgFile.val.comments
    /\ fs = <<>>
    /\ exit = "FAILURE"

\* ------------------------------------------------------ properties: files
\* the content of a file, "" when there is none
ContentOf(f, p) == IF p \in DOMAIN f THEN f[p] ELSE ""

\* C3 (as claimed): when one of the three files is non-empty at the start of
\* the call, the call returns the error and no file of the three is written:
\* each keeps the content it had (a missing one is at most created empty).
C3_NoPartialWrite ==
    \A i \in 1..Len(log) :
        LET c == log[i]
            three == Range(BoilerplatePaths(c.args.name))
        IN  (\E p \in three : ContentOf(c.pre, p) # "") =>
              /\ c.res = Err("Config files already exist")
              /\ \A p \in three : ContentOf(c.post, p) = ContentOf(c.pre, p)

\* C6: two calls in a row with the same arguments, the first on a directory
\* holding none of the three files: the first returns Ok and leaves each of
\* the three files holding exactly the boilerplate; the second returns the
\* "Config files already exist" error and leaves every file as it was.
C6_SecondCallRefused ==
    \A i \in 1..Len(log) :
        LET c == log[i]
            three == Range(BoilerplatePaths(c.args.name))
        IN  (three \cap DOMAIN c.pre = {}) =>
              /\ c.res = Ok
              /\ \A p \in three : p \in DOMAIN c.post /\ c.post[p] = CONFIG_TOML_BOILERPLATE
              /\ \A p \in DOMAIN c.pre : p \in DOMAIN c.post /\ c.post[p] = c.pre[p]
              /\ (i < Len(log) /\ log[i + 1].args = c.args) =>
                    /\ log[i + 1].res = Err("Config files already exist")
                    /\ log[i + 1].post = c.post

\* C6 witness: two calls for the same name, the first on an empty directory
C6_Witness ==
    /\ Len(log) = 2
    /\ log[1].args = log[2].args
    /\ DOMAIN log[1].pre = {}
    /\ log[1].res = Ok
    /\ log[2].res.tag = "Err"

\* ---------------------------------------------------- properties: ignore
\* the block a call appends, and the rules it sets
BlockOf(l) ==
    "\n\n# added by toml_const_cli\n" \o l.generated_file_path[Len(l.generated_file_path)] \o "\n"
RulesOf(name) == "# added by toml_const_cli\n*.toml\n!" \o name \o ".template.toml"

RECURSIVE Blocks(_, _)
Blocks(l, k) == IF k = 0 THEN "" ELSE Blocks(l, k - 1) \o BlockOf(l)

AllOk == \A i \in 1..Len(log) : log[i].res = Ok

\* C8 (as claimed): every successful call appends one block to the ignore
\* file beside the generated file, keeping what it held as a prefix, and
\* replaces the content of the config directory's ignore file with the rule
\* set; after k successful calls the first holds its original content and k
\* blocks, the second the rule set of the last call.
C8_AppendAndReplace ==
    /\ \A i \in 1..Len(log) :
          LET c == log[i]
          IN  c.res = Ok =>
                /\ GeneratedIgnore(input) \in DOMAIN c.post
                /\ c.post[GeneratedIgnore(input)]
                     = ContentOf(c.pre, GeneratedIgnore(input)) \o BlockOf(input)
                /\ ConfigIgnore(input) \in DOMAIN c.post
                /\ c.post[ConfigIgnore(input)] = RulesOf(c.args.name)
    /\ (Len(log) > 0 /\ AllOk) =>
          /\ ContentOf(fs, GeneratedIgnore(input))
               = ContentOf(log[1].pre, GeneratedIgnore(input)) \o Blocks(input, Len(log))
          /\ ContentOf(fs, ConfigIgnore(input)) = RulesOf(log[Len(log)].args.name)

\* the ignore file a fault is about
FaultFile(fault) ==
    IF fault \in {"open_generated", "write_generated"} THEN "generated" ELSE "config"

\* C10 (as claimed): an I/O error on either ignore file, at opening or at
\* writing, makes the call return an error value, and the error values for
\* the two files differ, so that the value tells which file failed.
C10_IoErrorReturned ==
    \A i \in 1..Len(log) :
        log[i].args.fault # "none" =>
            /\ log[i].res.tag = "Err"
            /\ \A j \in 1..Len(log) :
                  ( /\ log[j].args.fault # "none"
                    /\ FaultFile(log[j].args.fault) # FaultFile(log[i].args.fault) )
                  => log[j].res # log[i].res
====
